---- MODULE Spec2Model ----
(***************************************************************************)
(* FormControlTyped<T> (projects/forms/src/lib/form-control-typed.ts): a   *)
(* generic subclass of the framework's FormControl.  Every method of the   *)
(* class applies its default parameters and forwards to the superclass.    *)
(*                                                                         *)
(* The superclass is imported from '@angular/forms' (line 1) and is not    *)
(* part of the repository.  Its operations are the Base_ and Parent_       *)
(* definitions below, written from the contract the file's doc comments    *)
(* state (lines 10-22, 31-52, 66-74, 87-103, 115-124) and the framework's  *)
(* published behaviour.  The W_ definitions are the class's own code.      *)
(***************************************************************************)
EXTENDS Integers, Sequences, FiniteSets, TLC

\* Number of distinct string atoms a value may hold ("a", "b", ...).
NumStr == 2

-----------------------------------------------------------------------------
(* JavaScript values *)

Undefined == [t |-> "undefined"]
Null == [t |-> "null"]
Str(i) == [t |-> "str", s |-> i]
Bool(b) == [t |-> "bool", b |-> b]
\* A plain object: f maps its own property names to their values.
Obj(f) == [t |-> "obj", f |-> f]

Strs == {Str(i) : i \in 1..NumStr}
\* Values of shape {name: string}.
NameObjs == {Obj([name |-> s]) : s \in Strs}
\* The {value, disabled} pairs a caller may hand to the constructor or reset.
BoxOf(v, d) == Obj([value |-> v, disabled |-> Bool(d)])
Boxes == {BoxOf(v, d) : v \in {Null, Obj([name |-> Str(1)])}, d \in BOOLEAN}
\* Values of the declared type T.  T may itself be {value: string, disabled:
\* boolean}; such a value is the same object as a pair.
Values == {Null} \cup Strs \cup NameObjs \cup {BoxOf(Str(1), TRUE)}
FormStates == Values \cup Boxes \cup {Undefined}

\* An option flag is true, false or not supplied.
Flags == {"undefined", "true", "false"}
MkOpts(os, ee, mv, vm) ==
  [t |-> "opts", onlySelf |-> os, emitEvent |-> ee,
   emitModelToViewChange |-> mv, emitViewToModelChange |-> vm]
EmptyOpts == MkOpts("undefined", "undefined", "undefined", "undefined")
\* Options a caller passes to setValue and patchValue: every onlySelf/emitEvent
\* pair, the view flags switched off, or no options at all.
SetOptions ==
  {MkOpts(os, ee, "undefined", "undefined") : os \in Flags, ee \in Flags}
  \cup {MkOpts("undefined", "undefined", mv, vm) :
          mv \in {"undefined", "false"}, vm \in {"undefined", "false"}}
  \cup {Undefined}
ResetOptions ==
  {MkOpts(os, ee, "undefined", "undefined") : os \in Flags, ee \in Flags} \cup {Undefined}
TreeOptions == ResetOptions
TreeValues == {Null} \cup Strs
TreeFormStates == TreeValues \cup {BoxOf(Null, TRUE), BoxOf(Str(1), FALSE), Undefined}
Paths == {"name", "value", "disabled", "zip"}
Validators == {"none", "required"}

\* A default parameter (`x = d`) takes its default when the argument is undefined.
DefaultArg(x, d) == IF x = Undefined THEN d ELSE x

-----------------------------------------------------------------------------
(* The framework's control (superclass) *)

NoParent == [value |-> Null, status |-> "VALID", pristine |-> TRUE, touched |-> FALSE]

Event(who, stream, value, info) ==
  [who |-> who, stream |-> stream, value |-> value, info |-> info]

\* Validators.required rejects null; "none" accepts everything.
RunValidator(validator, value) ==
  IF validator = "required" /\ value = Null THEN "INVALID" ELSE "VALID"

\* _isBoxedValue: an object with exactly the two keys value and disabled.
IsBoxedValue(fs) ==
  /\ fs.t = "obj"
  /\ Cardinality(DOMAIN fs.f) = 2
  /\ "value" \in DOMAIN fs.f
  /\ "disabled" \in DOMAIN fs.f

\* The parent group recomputes its value and status from its (only) child and
\* emits unless emitEvent is false.
Parent_updateValueAndValidity(x, opts) ==
  LET p == [x.w.p EXCEPT !.value = x.w.c.value, !.status = x.w.c.status]
      ev == IF opts.emitEvent # "false"
            THEN << Event("parent", "valueChanges", p.value, p.status),
                    Event("parent", "statusChanges", p.value, p.status) >>
            ELSE << >>
  IN [w |-> [x.w EXCEPT !.p = p], log |-> x.log \o ev]

\* updateValueAndValidity: recompute the status (a disabled control stays
\* disabled), emit valueChanges and statusChanges unless emitEvent is false,
\* then update the parent unless onlySelf.
Base_updateValueAndValidity(x, opts) ==
  LET c0 == x.w.c
      c == [c0 EXCEPT !.status = IF c0.status = "DISABLED" THEN "DISABLED"
                                 ELSE RunValidator(c0.validator, c0.value)]
      ev == IF opts.emitEvent # "false"
            THEN << Event("control", "valueChanges", c.value, c.status),
                    Event("control", "statusChanges", c.value, c.status) >>
            ELSE << >>
      y == [w |-> [x.w EXCEPT !.c = c], log |-> x.log \o ev]
  IN IF y.w.hasParent /\ opts.onlySelf # "true"
     THEN Parent_updateValueAndValidity(y, opts)
     ELSE y

\* FormControl.setValue: store the value, call the view's onChange callbacks
\* unless emitModelToViewChange is false, then updateValueAndValidity(options).
Base_setValue(x, value, optionsArg) ==
  LET options == DefaultArg(optionsArg, EmptyOpts)
      c == [x.w.c EXCEPT !.value = value]
      ev == IF x.w.view /\ options.emitModelToViewChange # "false"
            THEN << Event("control", "onChange", value,
                          IF options.emitViewToModelChange # "false"
                          THEN "true" ELSE "false") >>
            ELSE << >>
  IN Base_updateValueAndValidity(
       [w |-> [x.w EXCEPT !.c = c], log |-> x.log \o ev], options)

\* _applyFormState: a {value, disabled} pair sets the value and disables or
\* enables the control (onlySelf, no events); anything else is the value.
Base_applyFormState(x, formState) ==
  IF IsBoxedValue(formState)
  THEN LET c == [x.w.c EXCEPT !.value = formState.f.value]
           st == IF formState.f.disabled = Bool(TRUE) THEN "DISABLED"
                 ELSE RunValidator(c.validator, c.value)
       IN [x EXCEPT !.w.c = [c EXCEPT !.status = st]]
  ELSE [x EXCEPT !.w.c.value = formState]

\* markAsPristine / markAsUntouched: the parent re-derives its own flag from
\* its children unless onlySelf.
Base_markAsPristine(x, opts) ==
  LET y == [x EXCEPT !.w.c.pristine = TRUE]
  IN IF y.w.hasParent /\ opts.onlySelf # "true"
     THEN [y EXCEPT !.w.p.pristine = TRUE] ELSE y

Base_markAsUntouched(x, opts) ==
  LET y == [x EXCEPT !.w.c.touched = FALSE]
  IN IF y.w.hasParent /\ opts.onlySelf # "true"
     THEN [y EXCEPT !.w.p.touched = FALSE] ELSE y

\* markAsDirty / markAsTouched: the user changed or blurred the control.
Base_markAsDirty(x, onlySelf) ==
  LET y == [x EXCEPT !.w.c.pristine = FALSE]
  IN IF y.w.hasParent /\ ~onlySelf
     THEN [y EXCEPT !.w.p.pristine = FALSE] ELSE y

Base_markAsTouched(x, onlySelf) ==
  LET y == [x EXCEPT !.w.c.touched = TRUE]
  IN IF y.w.hasParent /\ ~onlySelf
     THEN [y EXCEPT !.w.p.touched = TRUE] ELSE y

\* setParent, as a group does when the control is added to it: the group
\* starts pristine and untouched and computes its value without events.
Base_setParent(x) ==
  [x EXCEPT !.w.hasParent = TRUE,
            !.w.p = [value |-> x.w.c.value, status |-> x.w.c.status,
                     pristine |-> TRUE, touched |-> FALSE]]

\* registerOnChange: a view binds to the control.
Base_registerOnChange(x) == [x EXCEPT !.w.view = TRUE]

\* new FormControl(formState): apply the form state, then
\* updateValueAndValidity({onlySelf: true, emitEvent: false}).
Base_construct(formStateArg, validator) ==
  LET formState == DefaultArg(formStateArg, Null)
      blank == [w |-> [c |-> [value |-> Null, status |-> "VALID", pristine |-> TRUE,
                              touched |-> FALSE, validator |-> validator],
                       hasParent |-> FALSE, p |-> NoParent, view |-> FALSE],
                log |-> << >>]
  IN Base_updateValueAndValidity(Base_applyFormState(blank, formState),
                                 MkOpts("true", "false", "undefined", "undefined"))

\* FormControl.get -> _find: only groups and arrays have children, so the
\* lookup on a single-value control finds none and yields null.
Base_get(x, path) == Null

-----------------------------------------------------------------------------
(* FormControlTyped *)

\* A constructor that calls super() without its arguments.
W_construct_noArgs(formState, validator) == Base_construct(Undefined, validator)

\* constructor (lines 23-29): formState defaults to null; super(...).
W_construct(formState, validator) ==
  Base_construct(DefaultArg(formState, Null), validator)

\* An override that never calls super.setValue.
W_setValue_noSuper(x, value, options) == x

\* An override that calls super.setValue(value) and loses the options.
W_setValue_dropsOptions(x, value, options) == Base_setValue(x, value, EmptyOpts)

\* setValue (lines 54-64): options default to {}; super.setValue(value, options).
W_setValue(x, value, options) ==
  Base_setValue(x, value, DefaultArg(options, EmptyOpts))

\* this.setValue(...) inside the superclass runs the override of the
\* instance's class.
Dispatch_setValue(cls, x, value, options) ==
  IF cls = "FormControlTyped" THEN W_setValue(x, value, options)
  ELSE Base_setValue(x, value, options)

\* FormControl.patchValue: this.setValue(value, options).
Base_patchValue(cls, x, value, optionsArg) ==
  Dispatch_setValue(cls, x, value, DefaultArg(optionsArg, EmptyOpts))

\* FormControl.reset: apply the form state, mark pristine and untouched, then
\* this.setValue(this.value, options).
Base_reset(cls, x, formStateArg, optionsArg) ==
  LET formState == DefaultArg(formStateArg, Null)
      options == DefaultArg(optionsArg, EmptyOpts)
      y == Base_markAsUntouched(
             Base_markAsPristine(Base_applyFormState(x, formState), options), options)
  IN Dispatch_setValue(cls, y, y.w.c.value, options)

\* An override that calls super.patchValue(value) and loses the options.
W_patchValue_dropsOptions(x, value, options) ==
  Base_patchValue("FormControlTyped", x, value, EmptyOpts)

\* patchValue (lines 75-85): options default to {}; super.patchValue(value, options).
W_patchValue(x, value, options) ==
  Base_patchValue("FormControlTyped", x, value, DefaultArg(options, EmptyOpts))

\* An override that resets to the value the control holds.
W_reset_keepsValue(x, formState, options) ==
  Base_reset("FormControlTyped", x, x.w.c.value, DefaultArg(options, EmptyOpts))

\* An override that calls super.reset() and loses the form state.
W_reset_dropsFormState(x, formState, options) ==
  Base_reset("FormControlTyped", x, Null, DefaultArg(options, EmptyOpts))

\* An override that calls super.reset(formState) and loses the options.
W_reset_dropsOptions(x, formState, options) ==
  Base_reset("FormControlTyped", x, DefaultArg(formState, Null), EmptyOpts)

\* reset (lines 105-113): formState defaults to null, options to {};
\* super.reset(formState, options).
W_reset(x, formState, options) ==
  Base_reset("FormControlTyped", x, DefaultArg(formState, Null),
             DefaultArg(options, EmptyOpts))

\* An override that checks the path against the live value and throws.
W_get_validates(x, path) ==
  IF x.w.c.value.t = "obj" /\ path \in DOMAIN x.w.c.value.f
  THEN Base_get(x, path) ELSE [t |-> "error"]

\* get (lines 125-127): super.get(path); the cast has no runtime effect.
W_get(x, path) == Base_get(x, path)

-----------------------------------------------------------------------------
(* State *)

VARIABLES
  ctl,     \* the FormControlTyped instance (with its parent and view binding)
  log,     \* what the last call on ctl emitted, in order
  ret,     \* what the last call on ctl returned
  ref,     \* a plain FormControl driven by the same calls
  refLog,
  refRet,
  call     \* the last call and its arguments as the caller wrote them

vars == << ctl, log, ret, ref, refLog, refRet, call >>

Start(x) == [w |-> x, log |-> << >>]

\* The last call as the caller wrote it; a reset also notes the flags it found.
Call(op, value, options, path) ==
  [op |-> op, value |-> value, options |-> options, path |-> path,
   wasPristine |-> IF op = "reset" THEN ctl.c.pristine ELSE TRUE,
   wasTouched |-> IF op = "reset" THEN ctl.c.touched ELSE FALSE]

Init ==
  \E formState \in FormStates, validator \in Validators :
    LET a == W_construct(formState, validator)
        b == Base_construct(formState, validator)
    IN /\ ctl = a.w /\ log = a.log /\ ret = Undefined
       /\ ref = b.w /\ refLog = b.log /\ refRet = Undefined
       /\ call = [op |-> "construct", value |-> formState, options |-> Undefined,
                  path |-> "", wasPristine |-> TRUE, wasTouched |-> FALSE]

Apply(a, b, r, rr, c) ==
  /\ ctl' = a.w /\ log' = a.log /\ ret' = r
  /\ ref' = b.w /\ refLog' = b.log /\ refRet' = rr
  /\ call' = c

SetValue(values, optionSet) ==
  \E value \in values, options \in optionSet :
    Apply(W_setValue(Start(ctl), value, options),
          Base_setValue(Start(ref), value, options),
          Undefined, Undefined, Call("setValue", value, options, ""))

PatchValue(values, optionSet) ==
  \E value \in values, options \in optionSet :
    Apply(W_patchValue(Start(ctl), value, options),
          Base_patchValue("FormControl", Start(ref), value, options),
          Undefined, Undefined, Call("patchValue", value, options, ""))

Reset(formStates, optionSet) ==
  \E formState \in formStates, options \in optionSet :
    Apply(W_reset(Start(ctl), formState, options),
          Base_reset("FormControl", Start(ref), formState, options),
          Undefined, Undefined, Call("reset", formState, options, ""))

Get ==
  \E path \in Paths :
    Apply(Start(ctl), Start(ref), W_get(Start(ctl), path), Base_get(Start(ref), path),
          Call("get", Undefined, Undefined, path))

MarkAsDirty ==
  \E onlySelf \in BOOLEAN :
    Apply(Base_markAsDirty(Start(ctl), onlySelf), Base_markAsDirty(Start(ref), onlySelf),
          Undefined, Undefined, Call("markAsDirty", Undefined, Undefined, ""))

MarkAsTouched ==
  \E onlySelf \in BOOLEAN :
    Apply(Base_markAsTouched(Start(ctl), onlySelf), Base_markAsTouched(Start(ref), onlySelf),
          Undefined, Undefined, Call("markAsTouched", Undefined, Undefined, ""))

SetParent ==
  /\ ~ctl.hasParent
  /\ Apply(Base_setParent(Start(ctl)), Base_setParent(Start(ref)),
           Undefined, Undefined, Call("setParent", Undefined, Undefined, ""))

RegisterOnChange ==
  /\ ~ctl.view
  /\ Apply(Base_registerOnChange(Start(ctl)), Base_registerOnChange(Start(ref)),
           Undefined, Undefined, Call("registerOnChange", Undefined, Undefined, ""))

\* A control on its own, with or without a bound view.
Next ==
  \/ SetValue(Values, SetOptions)
  \/ PatchValue(Values, SetOptions)
  \/ Reset(FormStates, ResetOptions)
  \/ Get
  \/ MarkAsDirty
  \/ MarkAsTouched
  \/ RegisterOnChange

Spec == Init /\ [][Next]_vars

\* A control that may be added to a parent group.
NextTree ==
  \/ SetValue(TreeValues, TreeOptions)
  \/ PatchValue(TreeValues, TreeOptions)
  \/ Reset(TreeFormStates, TreeOptions)
  \/ MarkAsDirty
  \/ MarkAsTouched
  \/ SetParent

SpecTree == Init /\ [][NextTree]_vars

-----------------------------------------------------------------------------
(* Properties *)

Mutators == {"setValue", "patchValue", "reset"}
\* The options of the last call, with the default for none.
CallOptions == DefaultArg(call.options, EmptyOpts)
IsChangeEvent(e) == e.stream \in {"valueChanges", "statusChanges"}
Emitted(l, who, stream, value, status) ==
  \E i \in 1..Len(l) : l[i] = Event(who, stream, value, status)

\* C1: after setValue(v), from any prior state, the control's value is v.
C1_SetValueRoundTrip ==
  call.op = "setValue" => ctl.c.value = call.value

C1_Witness ==
  /\ call.op = "setValue"
  /\ call.value = Obj([name |-> Str(2)])
  /\ ctl.c.value = Obj([name |-> Str(2)])
  /\ ~ctl.c.pristine
  /\ ctl.c.status = "DISABLED"

\* C2: a patchValue(v, opts) step ends in the state, and emits the events,
\* that setValue(v, opts) produces from the same starting state.
C2_PatchSameAsSet ==
  [][call'.op = "patchValue" =>
       LET r == W_setValue(Start(ctl), call'.value, call'.options)
       IN ctl' = r.w /\ log' = r.log]_vars

C2_Witness ==
  /\ call.op = "patchValue"
  /\ call.options # Undefined
  /\ CallOptions.emitModelToViewChange = "false"
  /\ ctl.view
  /\ ctl.c.value = call.value
  /\ Len(log) = 2

\* C3: after reset() with no arguments the value is null and the control is
\* pristine and untouched, whatever it was before.
C3_ResetNoArgs ==
  (call.op = "reset" /\ call.value = Undefined) =>
    ctl.c.value = Null /\ ctl.c.pristine /\ ~ctl.c.touched

C3_Witness ==
  /\ call.op = "reset"
  /\ call.value = Undefined
  /\ ~call.wasPristine
  /\ call.wasTouched
  /\ ctl.c.value = Null
  /\ ctl.c.pristine
  /\ ~ctl.c.touched

\* C4: setValue(v, {emitEvent: false}) stores v and emits no valueChanges and
\* no statusChanges event; with emitEvent true or omitted the control emits
\* both, carrying the new value and status.
C4_EmitEvent ==
  call.op = "setValue" =>
    /\ ctl.c.value = call.value
    /\ CallOptions.emitEvent = "false" =>
         \A i \in 1..Len(log) : ~IsChangeEvent(log[i])
    /\ CallOptions.emitEvent # "false" =>
         /\ Emitted(log, "control", "valueChanges", ctl.c.value, ctl.c.status)
         /\ Emitted(log, "control", "statusChanges", ctl.c.value, ctl.c.status)

C4_Witness ==
  /\ call.op = "setValue"
  /\ CallOptions.emitEvent = "false"
  /\ CallOptions.onlySelf # "true"
  /\ ctl.hasParent
  /\ call.value = Str(2)
  /\ ctl.p.value = Str(2)
  /\ log = << >>

\* C5: get(k), for a property k of the object the control holds, returns a
\* control whose value is field k of the control's value.
C5_GetReturnsFieldControl ==
  (call.op = "get" /\ ctl.c.value.t = "obj" /\ call.path \in DOMAIN ctl.c.value.f) =>
    (ret.t = "control" /\ ret.value = ctl.c.value.f[call.path])

\* C6: a get(path) step returns what the underlying lookup returns, which is
\* null (never an error) when there is no child at the path, and leaves the
\* control as it was.
C6_GetMissingChild ==
  [][call'.op = "get" =>
       /\ ret' = Base_get(Start(ctl), call'.path)
       /\ ret' = Null
       /\ ctl' = ctl]_vars

C6_Witness ==
  /\ call.op = "get"
  /\ call.path = "zip"
  /\ ret = Null
  /\ ctl.c.value = Obj([name |-> Str(1)])
  /\ ~ctl.c.pristine

\* C7: after every call the typed control and a plain control driven by the
\* same calls hold the same state, returned the same result and emitted the
\* same events, and the typed control raised nothing.
C7_SameAsUnderlying ==
  /\ ctl = ref
  /\ log = refLog
  /\ ret = refRet
  /\ ret.t # "error"

C7_Witness ==
  /\ call.op = "patchValue"
  /\ call.options # Undefined
  /\ CallOptions.emitEvent = "false"
  /\ CallOptions.onlySelf = "true"
  /\ ctl.view
  /\ ~ctl.c.pristine
  /\ ref.c.value = call.value
  /\ Len(refLog) = 1

\* C8: the constructed control holds the bare value supplied, or the value of
\* a {value, disabled} pair with the pair's disabled state, or null when the
\* initial state is omitted; its status is the one the underlying constructor
\* computes.
C8_Construct ==
  call.op = "construct" =>
    /\ ctl.c.status = ref.c.status
    /\ IF call.value = Undefined THEN ctl.c.value = Null
       ELSE IF IsBoxedValue(call.value)
       THEN /\ ctl.c.value = call.value.f.value
            /\ (ctl.c.status = "DISABLED") <=> (call.value.f.disabled = Bool(TRUE))
       ELSE ctl.c.value = call.value

C8_Witness ==
  /\ call.op = "construct"
  /\ call.value = BoxOf(Obj([name |-> Str(1)]), TRUE)
  /\ ctl.c.value = Obj([name |-> Str(1)])
  /\ ctl.c.status = "DISABLED"

\* C9: after reset(formState) the control is pristine and untouched and holds
\* the bare value supplied, or the value of a {value, disabled} pair with the
\* pair's disabled state.
C9_ResetFormState ==
  (call.op = "reset" /\ call.value # Undefined) =>
    /\ ctl.c.pristine
    /\ ~ctl.c.touched
    /\ IF IsBoxedValue(call.value)
       THEN /\ ctl.c.value = call.value.f.value
            /\ (ctl.c.status = "DISABLED") <=> (call.value.f.disabled = Bool(TRUE))
       ELSE ctl.c.value = call.value

C9_Witness ==
  /\ call.op = "reset"
  /\ call.value = BoxOf(Obj([name |-> Str(1)]), TRUE)
  /\ ~call.wasPristine
  /\ call.wasTouched
  /\ ctl.c.pristine
  /\ ~ctl.c.touched
  /\ ctl.c.value = Obj([name |-> Str(1)])
  /\ ctl.c.status = "DISABLED"

\* C10: a setValue, patchValue or reset step with onlySelf true leaves the
\* parent as it was and emits nothing from it; with onlySelf false or omitted
\* the parent takes the control's new value and status (and, on reset, its
\* pristine and untouched flags) and emits unless emitEvent is false.
C10_OnlySelf ==
  [][(call'.op \in Mutators /\ ctl.hasParent) =>
       LET o == DefaultArg(call'.options, EmptyOpts)
       IN IF o.onlySelf = "true"
          THEN /\ ctl'.p = ctl.p
               /\ \A i \in 1..Len(log') : log'[i].who # "parent"
          ELSE /\ ctl'.p.value = ctl'.c.value
               /\ ctl'.p.status = ctl'.c.status
               /\ call'.op = "reset" => ctl'.p.pristine /\ ~ctl'.p.touched
               /\ o.emitEvent # "false" =>
                    /\ Emitted(log', "parent", "valueChanges", ctl'.c.value, ctl'.c.status)
                    /\ Emitted(log', "parent", "statusChanges", ctl'.c.value, ctl'.c.status)]_vars

C10_Witness ==
  /\ call.op = "reset"
  /\ CallOptions.onlySelf = "true"
  /\ ctl.hasParent
  /\ ctl.c.pristine
  /\ ~ctl.p.pristine
  /\ ctl.p.value # ctl.c.value
  /\ ctl.p.status # ctl.c.status

====
